---- MODULE Spec2Model ----
(***************************************************************************)
(* Base64 encoder / decoder of src/src/lib.rs, as a state machine.         *)
(*                                                                         *)
(* Bytes and characters are integers 0..255 (a character is its ASCII      *)
(* code), strings and byte vectors are sequences of them.  The two loops   *)
(* of the library are taken one iteration at a time, so that every         *)
(* intermediate value of bits_encoded, collected_bits and byte_buffer is   *)
(* a state.  The callers are the two shapes the crate's tests and main.rs  *)
(* use: encode then decode the result, and decode then encode the result.  *)
(***************************************************************************)
EXTENDS Integers, Sequences, FiniteSets, TLC

VARIABLES
    scenario,         \* "encode_decode" or "decode_encode": the caller's shape
    overflow_checks,  \* TRUE: debug build (overflow panics), FALSE: release (wraps)
    pc,               \* position of the running call
    data,             \* base64_encode's argument
    bits_encoded,     \* base64_encode's local
    encoded_string,   \* base64_encode's local, its return value
    text,             \* base64_decode's argument
    pos,              \* number of bytes the iterator databytes has yielded
    collected_bits,   \* base64_decode's local (u8)
    byte_buffer,      \* base64_decode's local (u16)
    outputbytes,      \* base64_decode's local
    result,           \* base64_decode's return value
    panic             \* "none", or the message of the panic that ended the call

vars == <<scenario, overflow_checks, pc, data, bits_encoded, encoded_string,
          text, pos, collected_bits, byte_buffer, outputbytes, result, panic>>

encVars == <<data, bits_encoded, encoded_string>>
decVars == <<text, pos, collected_bits, byte_buffer, outputbytes, result>>

----------------------------------------------------------------------------
(* Bounds of the model *)

\* longest byte sequence handed to base64_encode
MaxLen == 4

\* longest free-form string handed to base64_decode
MaxTextLen == 5

\* byte values the encoder's inputs are built from: 0x00, 0x30, 0xa5, 0xff
DataBytes == {0, 48, 165, 255}

\* characters the free-form decoder inputs are built from: 'A' (index 0),
\* '/' (index 63), '=' and the non-alphabet '!'
TextChars == {65, 47, 61, 33}

----------------------------------------------------------------------------
(* The alphabet *)

CHARSET ==
    << 65, 66, 67, 68, 69, 70, 71, 72, 73, 74, 75, 76, 77,
       78, 79, 80, 81, 82, 83, 84, 85, 86, 87, 88, 89, 90,
       97, 98, 99, 100, 101, 102, 103, 104, 105, 106, 107, 108, 109,
       110, 111, 112, 113, 114, 115, 116, 117, 118, 119, 120, 121, 122,
       48, 49, 50, 51, 52, 53, 54, 55, 56, 57,
       43, 47 >>

PADDING == 61

----------------------------------------------------------------------------
(* Fixed-width integer arithmetic *)

U8  == 256
U16 == 65536

RECURSIVE BitAnd(_, _)
BitAnd(a, b) ==
    IF a = 0 \/ b = 0 THEN 0
    ELSE (a % 2) * (b % 2) + 2 * BitAnd(a \div 2, b \div 2)

RECURSIVE BitOr(_, _)
BitOr(a, b) ==
    IF a = 0 THEN b
    ELSE IF b = 0 THEN a
    ELSE (IF a % 2 = 1 \/ b % 2 = 1 THEN 1 ELSE 0) + 2 * BitOr(a \div 2, b \div 2)

\* x << n and x >> n on a u16
Shl16(x, n) == (x * 2^n) % U16
Shr(x, n)   == x \div 2^n

----------------------------------------------------------------------------
(* base64_encode *)

\* the two bytes combined in the wrong order
collect_six_bits_swapped(from, offset) ==
    LET combined == BitOr(Shl16(from[2], 8), from[1])
    IN  Shr(BitAnd(combined, Shr(64512, offset)), 10 - offset) % U8

collect_six_bits(from, offset) ==
    LET combined == BitOr(Shl16(from[1], 8), from[2])
    IN  Shr(BitAnd(combined, Shr(64512, offset)), 10 - offset) % U8

\* without the second modulo
padding_needed_one_modulo(len) == (6 - ((len * 8) % 6)) \div 2

padding_needed(len) == ((6 - ((len * 8) % 6)) \div 2) % 3

lower_byte_index_to_encode(bits) == bits \div 8

\* d[index + 2] is data[index + 1]: Rust indexes from 0, a sequence from 1
upper_byte_to_encode(d, index) ==
    IF index + 1 = Len(d) THEN 0 ELSE d[index + 2]

\* without the test for the last byte
byte_reads_unguarded(d, index) == {index, index + 1}

\* the indexes of data one iteration reads
byte_reads(d, index) ==
    {index} \cup (IF index + 1 = Len(d) THEN {} ELSE {index + 1})

next_bits_encoded(bits) == bits + 6

\* the character one iteration of the loop pushes; d[index + 1] is data[index]
encoded_char(d, bits) ==
    LET index  == lower_byte_index_to_encode(bits)
        offset == (bits % 8) % U8
    IN  CHARSET[collect_six_bits(<<d[index + 1], upper_byte_to_encode(d, index)>>, offset) + 1]

RECURSIVE PadString(_)
PadString(n) == IF n = 0 THEN <<>> ELSE <<PADDING>> \o PadString(n - 1)

\* base64_encode as a function of its argument: the loop, then the padding
RECURSIVE encode_loop(_, _, _)
encode_loop(d, bits, s) ==
    IF lower_byte_index_to_encode(bits) = Len(d) THEN s
    ELSE encode_loop(d, next_bits_encoded(bits), Append(s, encoded_char(d, bits)))

base64_encode(d) == encode_loop(d, 0, <<>>) \o PadString(padding_needed(Len(d)))

\* one iteration of the loop that does not break
EncodeStep ==
    /\ pc = "encode"
    /\ lower_byte_index_to_encode(bits_encoded) # Len(data)
    /\ LET index == lower_byte_index_to_encode(bits_encoded)
       IN  IF byte_reads(data, index) \subseteq 0 .. Len(data) - 1
           THEN /\ encoded_string' = Append(encoded_string, encoded_char(data, bits_encoded))
                /\ bits_encoded' = next_bits_encoded(bits_encoded)
                /\ UNCHANGED <<pc, panic>>
           ELSE /\ panic' = "index out of bounds"
                /\ pc' = "done"
                /\ UNCHANGED <<encoded_string, bits_encoded>>
    /\ UNCHANGED <<scenario, overflow_checks, data, text, pos, collected_bits,
                   byte_buffer, outputbytes, result>>

\* the iteration that breaks out of the loop
EncodeBreak ==
    /\ pc = "encode"
    /\ lower_byte_index_to_encode(bits_encoded) = Len(data)
    /\ pc' = "pad"
    /\ UNCHANGED <<scenario, overflow_checks, encVars, decVars, panic>>

\* the padding loop and the return
EncodePad ==
    /\ pc = "pad"
    /\ encoded_string' = encoded_string \o PadString(padding_needed(Len(data)))
    /\ pc' = "encoded"
    /\ UNCHANGED <<scenario, overflow_checks, data, bits_encoded, decVars, panic>>

----------------------------------------------------------------------------
(* base64_decode *)

NoResult == [kind |-> "none", msg |-> "", byte |-> 0, bytes |-> <<>>]
Ok(bytes) == [kind |-> "Ok", msg |-> "", byte |-> 0, bytes |-> bytes]
Err(msg, byte) == [kind |-> "Err", msg |-> msg, byte |-> byte, bytes |-> <<>>]

InvalidSymbol  == "Failed to decode base64: Expected byte from charset, found invalid byte."
InvalidPadding == "Failed to decode base64: Invalid padding."

\* CHARSET.iter().position(|&x| x == nextbyte): the first index, -1 for None
charset_position(b) ==
    IF \E i \in 1 .. Len(CHARSET) : CHARSET[i] = b
    THEN (CHOOSE i \in 1 .. Len(CHARSET) :
              /\ CHARSET[i] = b
              /\ \A j \in 1 .. i - 1 : CHARSET[j] # b) - 1
    ELSE -1

\* the loop entered with 8 bits held
while_condition_inclusive(bits) == bits <= 8

\* while collected_bits < 8
while_condition(bits) == bits < 8

\* the symbol placed two bits too low
buffer_with_symbol_low(buf, idx, bits) == BitOr(buf, Shl16(BitAnd(idx, 63), 8 - bits))

\* byte_buffer |= ((idx & 0b00111111) as u16) << (10 - collected_bits)
buffer_with_symbol(buf, idx, bits) == BitOr(buf, Shl16(BitAnd(idx, 63), 10 - bits))

\* a symbol counted as a whole byte
bits_after_symbol_eight(bits) == (bits + 8) % U8

bits_after_symbol(bits) == (bits + 6) % U8

\* collected_bits -= 2 where it does not overflow
bits_after_padding(bits) == bits - 2

\* the mask one bit short
extracted_byte_short_mask(buf) == Shr(BitAnd(32512, buf), 8) % U8

\* ((0b1111111100000000 & byte_buffer) >> 8) as u8
extracted_byte(buf) == Shr(BitAnd(65280, buf), 8) % U8

\* the buffer cleared, the bits left in its low byte lost
buffer_after_extract_cleared(buf) == 0

\* byte_buffer &= 0b0000000011111111; byte_buffer <<= 8
buffer_after_extract(buf) == Shl16(BitAnd(buf, 255), 8)

bits_after_extract(bits) == bits - 8

\* what the function returns once the input is exhausted
decode_return(bits, out) == IF bits # 0 THEN Err(InvalidPadding, bits) ELSE Ok(out)

\* the next byte of the iterator is a character of the alphabet
DecodeSymbol ==
    /\ pc = "decode"
    /\ while_condition(collected_bits)
    /\ pos < Len(text)
    /\ charset_position(text[pos + 1]) # -1
    /\ byte_buffer' = buffer_with_symbol(byte_buffer, charset_position(text[pos + 1]),
                                         collected_bits)
    /\ collected_bits' = bits_after_symbol(collected_bits)
    /\ pos' = pos + 1
    /\ UNCHANGED <<scenario, overflow_checks, pc, encVars, text, outputbytes, result, panic>>

\* the next byte is the padding character; the subtraction on a u8 panics in a
\* build with overflow checks and wraps in one without
DecodePadding ==
    /\ pc = "decode"
    /\ while_condition(collected_bits)
    /\ pos < Len(text)
    /\ charset_position(text[pos + 1]) = -1
    /\ text[pos + 1] = PADDING
    /\ pos' = pos + 1
    /\ IF bits_after_padding(collected_bits) >= 0
       THEN /\ collected_bits' = bits_after_padding(collected_bits)
            /\ UNCHANGED <<pc, panic>>
       ELSE IF overflow_checks
       THEN /\ panic' = "attempt to subtract with overflow"
            /\ pc' = "done"
            /\ UNCHANGED collected_bits
       ELSE /\ collected_bits' = bits_after_padding(collected_bits) % U8
            /\ UNCHANGED <<pc, panic>>
    /\ UNCHANGED <<scenario, overflow_checks, encVars, text, byte_buffer, outputbytes, result>>

\* the next byte is neither: return the error
DecodeInvalid ==
    /\ pc = "decode"
    /\ while_condition(collected_bits)
    /\ pos < Len(text)
    /\ charset_position(text[pos + 1]) = -1
    /\ text[pos + 1] # PADDING
    /\ pos' = pos + 1
    /\ result' = Err(InvalidSymbol, text[pos + 1])
    /\ pc' = "decoded"
    /\ UNCHANGED <<scenario, overflow_checks, encVars, text, collected_bits, byte_buffer,
                   outputbytes, panic>>

\* the iterator is exhausted: break 'decodeloop, then the check and the return
DecodeExhausted ==
    /\ pc = "decode"
    /\ while_condition(collected_bits)
    /\ pos = Len(text)
    /\ result' = decode_return(collected_bits, outputbytes)
    /\ pc' = "decoded"
    /\ UNCHANGED <<scenario, overflow_checks, encVars, text, pos, collected_bits,
                   byte_buffer, outputbytes, panic>>

\* the while loop is left with 8 bits or more: one byte goes to the output
DecodeExtract ==
    /\ pc = "decode"
    /\ ~while_condition(collected_bits)
    /\ outputbytes' = Append(outputbytes, extracted_byte(byte_buffer))
    /\ byte_buffer' = buffer_after_extract(byte_buffer)
    /\ collected_bits' = bits_after_extract(collected_bits)
    /\ UNCHANGED <<scenario, overflow_checks, pc, encVars, text, pos, result, panic>>

----------------------------------------------------------------------------
(* The callers *)

\* base64_decode(&base64_encode(..)): tests::encode_decode and main
CallDecode ==
    /\ pc = "encoded"
    /\ scenario = "encode_decode"
    /\ text' = encoded_string
    /\ pos' = 0
    /\ collected_bits' = 0
    /\ byte_buffer' = 0
    /\ outputbytes' = <<>>
    /\ pc' = "decode"
    /\ UNCHANGED <<scenario, overflow_checks, encVars, result, panic>>

\* base64_encode(&base64_decode(..).unwrap()): tests::decode_encode
CallEncode ==
    /\ pc = "decoded"
    /\ scenario = "decode_encode"
    /\ result.kind = "Ok"
    /\ data' = result.bytes
    /\ bits_encoded' = 0
    /\ encoded_string' = <<>>
    /\ pc' = "encode"
    /\ UNCHANGED <<scenario, overflow_checks, decVars, panic>>

\* the second call has returned, or the first one returned an error
Return ==
    /\ \/ pc = "encoded" /\ scenario = "decode_encode"
       \/ pc = "decoded" /\ scenario = "encode_decode"
       \/ pc = "decoded" /\ scenario = "decode_encode" /\ result.kind = "Err"
    /\ pc' = "done"
    /\ UNCHANGED <<scenario, overflow_checks, encVars, decVars, panic>>

----------------------------------------------------------------------------
(* Inputs *)

SeqsUpTo(S, n) == UNION {[1 .. k -> S] : k \in 0 .. n}

ByteSeqs == SeqsUpTo(DataBytes, MaxLen)

Texts == SeqsUpTo(TextChars, MaxTextLen)

\* the number of low bits of the last symbol that carry no data
unused_low_bits(b) == IF Len(b) % 3 = 1 THEN 4 ELSE IF Len(b) % 3 = 2 THEN 2 ELSE 0

\* base64_encode(b) with its last alphabet character replaced by any alphabet
\* character whose index differs from it in the unused low bits only
Variants(b) ==
    LET t == base64_encode(b)
        k == Len(t) - padding_needed(Len(b))
        m == 2 ^ unused_low_bits(b)
    IN  IF Len(b) % 3 = 0 THEN {}
        ELSE {[t EXCEPT ![k] = CHARSET[j + 1]] :
                 j \in {i \in 0 .. 63 : i \div m = charset_position(t[k]) \div m}}

DecodeInputs ==
    Texts \cup {base64_encode(b) : b \in ByteSeqs} \cup UNION {Variants(b) : b \in ByteSeqs}

Init ==
    /\ overflow_checks \in BOOLEAN
    /\ pos = 0
    /\ collected_bits = 0
    /\ byte_buffer = 0
    /\ outputbytes = <<>>
    /\ result = NoResult
    /\ panic = "none"
    /\ bits_encoded = 0
    /\ encoded_string = <<>>
    /\ \/ /\ scenario = "encode_decode"
          /\ pc = "encode"
          /\ data \in ByteSeqs
          /\ text = <<>>
       \/ /\ scenario = "decode_encode"
          /\ pc = "decode"
          /\ text \in DecodeInputs
          /\ data = <<>>

Next ==
    \/ EncodeStep
    \/ EncodeBreak
    \/ EncodePad
    \/ DecodeSymbol
    \/ DecodePadding
    \/ DecodeInvalid
    \/ DecodeExhausted
    \/ DecodeExtract
    \/ CallDecode
    \/ CallEncode
    \/ Return

Spec == Init /\ [][Next]_vars

\* base64_encode alone, called on any of the byte sequences
InitEncode == Init /\ scenario = "encode_decode"

NextEncode ==
    \/ EncodeStep
    \/ EncodeBreak
    \/ EncodePad

\* the call is synchronous: once started it runs on, nothing suspends it
SpecEncode == InitEncode /\ [][NextEncode]_vars /\ WF_vars(NextEncode)

----------------------------------------------------------------------------
(* Standard Base64, stated on the bit stream and independently of the code *)

\* bit i (from 0, most significant bit of the first byte first) of d, 0 past the end
StreamBit(d, i) ==
    IF i >= 8 * Len(d) THEN 0 ELSE (d[(i \div 8) + 1] \div 2 ^ (7 - (i % 8))) % 2

\* the 6-bit group that starts at bit offset 6 * g
SixBitGroup(d, g) ==
    32 * StreamBit(d, 6 * g) + 16 * StreamBit(d, 6 * g + 1) + 8 * StreamBit(d, 6 * g + 2)
    + 4 * StreamBit(d, 6 * g + 3) + 2 * StreamBit(d, 6 * g + 4) + StreamBit(d, 6 * g + 5)

\* A-Z a-z 0-9 + /
StandardChar(v) ==
    IF v < 26 THEN 65 + v
    ELSE IF v < 52 THEN 97 + (v - 26)
    ELSE IF v < 62 THEN 48 + (v - 52)
    ELSE IF v = 62 THEN 43 ELSE 47

\* ceil(8n / 6)
SymbolCount(n) == (8 * n + 5) \div 6

\* 0, 2 or 1 padding characters for n mod 3 = 0, 1 or 2
PaddingCount(n) == IF n % 3 = 0 THEN 0 ELSE IF n % 3 = 1 THEN 2 ELSE 1

StandardBase64(d) ==
    [i \in 1 .. SymbolCount(Len(d)) + PaddingCount(Len(d)) |->
        IF i <= SymbolCount(Len(d)) THEN StandardChar(SixBitGroup(d, i - 1)) ELSE 61]

AlphabetChars == {StandardChar(v) : v \in 0 .. 63}

----------------------------------------------------------------------------
(* C1 *)

\* C1: round trip. Whenever the caller has encoded a byte sequence and decoded
\* the text it got, the decoder returned Ok with exactly the bytes encoded.
C1_RoundTrip ==
    (scenario = "encode_decode" /\ pc = "done") =>
        (panic = "none" /\ result = Ok(data))

C1_Witness ==
    /\ scenario = "encode_decode"
    /\ pc = "done"
    /\ Len(data) = 4
    /\ data[1] = 255
    /\ result = Ok(data)

----------------------------------------------------------------------------
(* C2 *)

\* C2: whenever base64_encode has returned, the string it built is the standard
\* Base64 text of its argument: the 6-bit groups of the most-significant-bit-first
\* bit stream, zero-filled on the right, through A-Z a-z 0-9 + /, then '='.
C2_StandardEncoding ==
    pc = "encoded" => encoded_string = StandardBase64(data)

C2_Witness ==
    /\ pc = "encoded"
    /\ data = <<48, 165, 255, 0>>
    /\ encoded_string = <<77, 75, 88, 47, 65, 65, 61, 61>>

----------------------------------------------------------------------------
(* C4 *)

\* C4: whenever base64_encode has returned on n bytes, the string is ceil(8n/6)
\* alphabet characters followed by exactly 0, 2 or 1 '=' for n mod 3 = 0, 1, 2 and
\* nothing else; its length is a multiple of 4, and is 0 exactly when n = 0.
C4_OutputShape ==
    pc = "encoded" =>
        LET n == Len(data)
        IN  /\ Len(encoded_string) = SymbolCount(n) + PaddingCount(n)
            /\ \A i \in 1 .. Len(encoded_string) :
                   IF i <= SymbolCount(n)
                   THEN encoded_string[i] \in AlphabetChars
                   ELSE encoded_string[i] = 61
            /\ padding_needed(n) = (3 - (n % 3)) % 3
            /\ Len(encoded_string) % 4 = 0
            /\ (Len(encoded_string) = 0) <=> (n = 0)

C4_Witness ==
    /\ pc = "encoded"
    /\ Len(data) = 3
    /\ Len(encoded_string) = 4
    /\ encoded_string[4] # 61

----------------------------------------------------------------------------
(* C8 *)

\* the byte index and the bit offset of the iteration about to run
EncIndex  == lower_byte_index_to_encode(bits_encoded)
EncOffset == bits_encoded % 8

\* C8: base64_encode is total. In every iteration the byte index is at most
\* data.len(), the reads of data are in bounds, the offset is 0, 2, 4 or 6 and
\* no panic ends the call; from one iteration to the next the byte index
\* grows by at most 1; and a call that has started returns.
C8_EncodeTotal ==
    /\ [](pc \in {"encode", "pad", "encoded"} => panic = "none")
    /\ [](pc = "encode" =>
            /\ EncIndex <= Len(data)
            /\ EncOffset \in {0, 2, 4, 6}
            /\ EncIndex < Len(data) =>
                   byte_reads(data, EncIndex) \subseteq 0 .. Len(data) - 1)
    /\ [][EncodeStep => (EncIndex' - EncIndex) \in {0, 1}]_vars
    /\ (pc = "encode") ~> (pc = "encoded")

C8_Witness ==
    /\ pc = "encode"
    /\ Len(data) = 4
    /\ EncIndex = 3
    /\ EncOffset = 6
    /\ byte_reads(data, EncIndex) = {3}

----------------------------------------------------------------------------
(* The decoder's bit count, stated on the input and independently of the code *)

IsAlphabet(c) == c \in AlphabetChars
IsPadding(c)  == c = 61

\* +6 for every alphabet character and -2 for every '=' among the first k
\* characters of t, as an integer that may be negative
RECURSIVE ConsumedBits(_, _)
ConsumedBits(t, k) ==
    IF k = 0 THEN 0
    ELSE ConsumedBits(t, k - 1)
         + (IF IsAlphabet(t[k]) THEN 6 ELSE IF IsPadding(t[k]) THEN -2 ELSE 0)

\* the held-bit count of the count arithmetic: what was consumed, less 8 for
\* every byte extracted
HeldBits == ConsumedBits(text, pos) - 8 * Len(outputbytes)

InvalidPositions(t) == {i \in 1 .. Len(t) : ~IsAlphabet(t[i]) /\ ~IsPadding(t[i])}

FirstInvalid(t) == t[CHOOSE i \in InvalidPositions(t) : \A j \in InvalidPositions(t) : i <= j]

DecodeCalled == pc \in {"decode", "decoded"} \/ (pc = "done" /\ scenario = "decode_encode")

----------------------------------------------------------------------------
(* C3 *)

\* C3: on every input the decoder's call ends in Ok or in one of the two errors
\* and in nothing else (no panic), and its held-bit counter never goes below 0:
\* it always equals the count arithmetic's value, which stays non-negative.
C3_DecodeOutcomes ==
    /\ panic = "none"
    /\ pc \in {"decode", "decoded"} => (HeldBits >= 0 /\ collected_bits = HeldBits)
    /\ pc = "decoded" =>
           \/ result.kind = "Ok"
           \/ result.kind = "Err" /\ result.msg \in {InvalidSymbol, InvalidPadding}

----------------------------------------------------------------------------
(* C5 *)

\* C5: a decode call on a text that holds a byte that is neither in the alphabet
\* nor '=' ends with the invalid-symbol error carrying the first such byte and
\* no output.
C5_FirstInvalidSymbol ==
    (scenario = "decode_encode" /\ pc = "done" /\ InvalidPositions(text) # {}) =>
        /\ panic = "none"
        /\ result = Err(InvalidSymbol, FirstInvalid(text))

----------------------------------------------------------------------------
(* C6 *)

\* C6: a decode call on a text of alphabet characters and '=' only consumes the
\* whole text, and returns the invalid-padding error carrying n when the count
\* arithmetic (+6, -2, -8) leaves n # 0 bits and Ok when it leaves 0.
C6_PaddingArithmetic ==
    (scenario = "decode_encode" /\ pc \in {"decoded", "done"} /\ InvalidPositions(text) = {}) =>
        /\ panic = "none"
        /\ pos = Len(text)
        /\ result = IF HeldBits # 0 THEN Err(InvalidPadding, HeldBits) ELSE Ok(outputbytes)

----------------------------------------------------------------------------
(* C7 *)

EncoderOutputs == {base64_encode(b) : b \in ByteSeqs}

\* C7: text round trip. Decoding a text the encoder produces returns Ok, and
\* encoding the bytes returned gives the text back.
C7_TextRoundTrip ==
    (scenario = "decode_encode" /\ pc = "done" /\ text \in EncoderOutputs) =>
        /\ panic = "none"
        /\ result.kind = "Ok"
        /\ data = result.bytes
        /\ encoded_string = text

C7_Witness ==
    /\ scenario = "decode_encode"
    /\ pc = "done"
    /\ text = <<47, 47, 47, 47, 47, 119, 61, 61>>
    /\ result = Ok(<<255, 255, 255, 255>>)
    /\ encoded_string = text

----------------------------------------------------------------------------
(* C9 *)

\* C9 as the specification states it, at the point the claim names: right after
\* a 6-bit symbol has been added and before a byte is extracted, the decoder
\* holds between 0 and 10 bits.
C9_AtMostTenBits ==
    [][DecodeSymbol => collected_bits' \in 0 .. 10]_vars

\* C9, amended: whenever the decoder is about to read a character it holds 0, 2,
\* 4 or 6 bits, and right after it has added a 6-bit symbol, before a byte is
\* extracted, it holds between 6 and 12 bits.
C9_AtMostTwelveBits ==
    /\ []((pc = "decode" /\ collected_bits < 8) => collected_bits \in {0, 2, 4, 6})
    /\ [][DecodeSymbol => collected_bits' \in 6 .. 12]_vars

C9_Witness ==
    /\ pc = "decode"
    /\ panic = "none"
    /\ text = <<65, 65>>
    /\ pos = 2
    /\ collected_bits = 12

----------------------------------------------------------------------------
(* C10 *)

\* every pair of a byte sequence b and a text that differs from base64_encode(b)
\* in the unused low bits of its last symbol at most
VariantPairs == UNION {{<<t, b>> : t \in Variants(b)} : b \in ByteSeqs}

VariantTexts == {p[1] : p \in VariantPairs}

\* no text is such a variant of two byte sequences, so the b of a text is one
VariantSourceUnique == Cardinality(VariantPairs) = Cardinality(VariantTexts)

\* C10: the decoder accepts non-canonical text. A text that differs from the
\* encoding of b only in the unused low bits of its last symbol decodes to Ok(b);
\* encoding what it decodes to gives the canonical text, not the text decoded.
C10_NonCanonicalAccepted ==
    (scenario = "decode_encode" /\ pc = "done" /\ text \in VariantTexts) =>
        /\ VariantSourceUnique
        /\ panic = "none"
        /\ result.kind = "Ok"
        /\ <<text, result.bytes>> \in VariantPairs
        /\ encoded_string = StandardBase64(result.bytes)
        /\ (text # StandardBase64(result.bytes)) => (encoded_string # text)

C10_Witness ==
    /\ scenario = "decode_encode"
    /\ pc = "done"
    /\ text = <<77, 66, 61, 61>>
    /\ result = Ok(<<48>>)
    /\ encoded_string = <<77, 65, 61, 61>>

====
